---- MODULE Spec2Model ----
(***************************************************************************)
(* Model of flasher.py: the ESP8266Flasher worker object (begin_flash,     *)
(* write_flash, _write_flash, erase_flash, abort_flash), the Qt event      *)
(* queue of the thread it lives in, and the FlashMainWnd handlers that     *)
(* post requests to it.                                                    *)
(*                                                                         *)
(* The worker's slots run on one thread.  A slot is started by the         *)
(* thread's event loop when it is idle, or by QApplication.processEvents() *)
(* called at the head of the write loop, which runs the queued slots       *)
(* nested on top of the running one: `stack' is that call stack.           *)
(* Images are modelled by their lengths; the device session (esptool) is   *)
(* the environment and every call on it may succeed or raise.              *)
(***************************************************************************)
EXTENDS Integers, Sequences, FiniteSets, TLC

\* ---------------------------------------------------------------- bounds
\* Clicks the user makes on the start/abort button and the erase button.
MaxClicks == 3
\* Longest firmware body the download delivers.
MaxBody == 17
\* esp.FLASH_WRITE_SIZE, the session's block size (scaled down).
FLASH_WRITE_SIZE == 8

\* pad_to(..., 32 if args.encrypt else 4)
PadEncrypt == 32
PadPlain == 4

\* Flash capacities detect_flash_size may resolve (scaled down).
FlashSizes == {16}
\* Lengths of firmware['body'].
BodyLens == {0, FLASH_WRITE_SIZE + 2, MaxBody}
\* Lengths zlib.compress may return for an image of n bytes.
CompressedLens(n) ==
    {c \in {FLASH_WRITE_SIZE - 1, FLASH_WRITE_SIZE + 1} : c <= n + FLASH_WRITE_SIZE}

\* ---------------------------------------------------------------- state
VARIABLES
    is_abort,    \* ESP8266Flasher._is_abort
    esp8266,     \* ESP8266Flasher.esp8266: a session id, 0 while never assigned
    stack,       \* the worker thread's running slots, innermost last
    queue,       \* the worker thread's queued slot calls
    trace,       \* session calls issued and signals emitted, in order
    jobs,        \* one record per started begin_flash / erase_flash slot
    alive,       \* FALSE once an uncaught exception has aborted the process
    btn_state,   \* FlashMainWnd.btn_state
    erasebtn,    \* ui.erasebtn.isEnabled()
    downloads,   \* firmware downloads in flight
    uiq,         \* signals queued to the GUI thread
    nclicks      \* clicks made so far

vars == <<is_abort, esp8266, stack, queue, trace, jobs, alive,
          btn_state, erasebtn, downloads, uiq, nclicks>>

worker == <<is_abort, esp8266, stack, trace, jobs, alive>>
gui == <<btn_state, erasebtn, downloads, nclicks>>

\* ---------------------------------------------------------------- helpers
Min(a, b) == IF a < b THEN a ELSE b

\* esptool.pad_to, on the length of the data
pad_to(n, alignment) ==
    IF n % alignment = 0 THEN n ELSE n + (alignment - (n % alignment))

Entry(op, job, ses, x, y, s) ==
    [op |-> op, job |-> job, ses |-> ses, x |-> x, y |-> y, s |-> s]

\* the session calls of the trace
DetectOps == {"detect_chip"}
BeginOps == {"flash_begin", "flash_defl_begin"}
BlockOps == {"flash_block", "flash_defl_block", "flash_encrypt_block"}
FinishOps == {"flash_finish", "flash_defl_finish"}
SessionOps == BeginOps \cup BlockOps \cup FinishOps \cup
              {"flash_md5sum", "flash_set_parameters", "erase_flash", "read_mac"}

\* number of sessions opened so far
NumSessions == Cardinality({i \in DOMAIN trace : trace[i].op \in DetectOps})

Top == stack[Len(stack)]
Running == alive /\ Len(stack) > 0
SetTop(f) == [stack EXCEPT ![Len(stack)] = f]
Pop == SubSeq(stack, 1, Len(stack) - 1)

\* Args.set_body: the file object is a BytesIO, which has no `name'
set_body(addr, data) == [addr |-> addr, len |-> data, named |-> FALSE]

\* class Args, as Args.__init__ leaves it and write_flash fills it
Args(body) ==
    [compress |-> "None", no_compress |-> FALSE, no_stub |-> FALSE,
     encrypt |-> FALSE, flash_size |-> "detect", flash_bytes |-> 0,
     addr_filename |-> <<set_body(0, body)>>]

Frame(kind, job, body) ==
    [kind |-> kind, job |-> job, pc |-> "connect", body |-> body,
     esp |-> 0, is_stub |-> FALSE, args |-> Args(body),
     idx |-> 1, image |-> 0, uncsize |-> 0, seq |-> 0, written |-> 0]

Init ==
    /\ is_abort = FALSE
    /\ esp8266 = 0
    /\ stack = <<>>
    /\ queue = <<>>
    /\ trace = <<>>
    /\ jobs = <<>>
    /\ alive = TRUE
    /\ btn_state = "FLASH"
    /\ erasebtn = TRUE
    /\ downloads = 0
    /\ uiq = <<>>
    /\ nclicks = 0

\* ------------------------------------------------------------ slot plumbing
\* A queued slot call is delivered when the thread's event loop is idle, or
\* inside QApplication.processEvents() at the head of the write loop.
CanDispatch ==
    /\ alive
    /\ queue # <<>>
    /\ IF stack = <<>> THEN TRUE ELSE Top.pc = "poll"

NewJob(kind, body) ==
    [kind |-> kind, status |-> "running", err |-> "", body |-> body, cap |-> 0]

Emit(entries) == trace' = trace \o entries

\* the slot returns normally
Return(job) == jobs' = [jobs EXCEPT ![job].status = "returned"]

\* An exception leaves the slot uncaught.  PyQt either prints the traceback
\* and the thread goes on with the slot gone, or aborts the process.
Raise(err, entries) ==
    /\ Emit(entries)
    /\ jobs' = [jobs EXCEPT ![Top.job].status = "raised", ![Top.job].err = err]
    /\ \/ alive' = TRUE /\ stack' = Pop
       \/ alive' = FALSE /\ stack' = stack
    /\ UNCHANGED <<is_abort, esp8266, queue, uiq, gui>>

Result(job, code, desc) == Entry("flash_result_sig", job, 0, code, 0, desc)
Console(job, text) == Entry("console_sig", job, 0, 0, 0, text)
Call(op, f, x, y) == Entry(op, f.job, f.esp, x, y, "")
\* a call that raised instead of returning
Failed(call) == [call EXCEPT !.s = "raise"]
Close(job, ses) == Entry("close_serial", job, ses, 0, 0, "")

\* ---------------------------------------------------------------- abort_flash
abort_flash ==
    /\ CanDispatch
    /\ Head(queue).sig = "abort_flash_sig"
    /\ queue' = Tail(queue)
    /\ is_abort' = TRUE
    /\ UNCHANGED <<esp8266, stack, trace, jobs, alive, uiq, gui>>

\* ---------------------------------------------------------------- begin_flash
\* lines 61-63: the slot starts and clears the flag
begin_flash ==
    /\ CanDispatch
    /\ Head(queue).sig = "begin_flash_sig"
    /\ queue' = Tail(queue)
    /\ is_abort' = FALSE
    /\ jobs' = Append(jobs, NewJob("flash", Head(queue).body))
    /\ stack' = Append(stack, Frame("flash", Len(jobs) + 1, Head(queue).body))
    /\ UNCHANGED <<esp8266, trace, alive, uiq, gui>>

\* where begin_flash goes on after a successful connect
AfterConnect == "write_flash"

\* the `return' of line 71 left out: begin_flash goes on to write_flash
SerialReturn_fallthrough(f) == SetTop([f EXCEPT !.pc = "write_flash"])

\* line 71: the handler returns, the slot is over
SerialReturn(f) == Pop

\* lines 64-71: detect_chip, run_stub and the SerialException handler
Connect ==
    /\ Running
    /\ Top.kind = "flash"
    /\ Top.pc = "connect"
    /\ LET f == Top
           ses == NumSessions + 1
           opened == [f EXCEPT !.esp = ses]
       IN \/ \* both calls succeed: self.esp8266 is the stub loader
             /\ Emit(<<Call("detect_chip", opened, 0, 0), Call("run_stub", opened, 0, 0)>>)
             /\ esp8266' = ses
             /\ stack' = SetTop([opened EXCEPT !.pc = AfterConnect, !.is_stub = TRUE])
             /\ UNCHANGED <<is_abort, jobs, alive, queue, uiq, gui>>
          \/ \* detect_chip raises SerialException
             /\ Emit(<<Console(f.job, "serial"), Result(f.job, 1, "serial")>>)
             /\ uiq' = Append(uiq, "flash_result")
             /\ Return(f.job)
             /\ stack' = SerialReturn(f)
             /\ UNCHANGED <<is_abort, esp8266, alive, queue, gui>>
          \/ \* run_stub raises SerialException: self.esp8266 is the ROM loader
             /\ Emit(<<Call("detect_chip", opened, 0, 0), Failed(Call("run_stub", opened, 0, 0)),
                       Console(f.job, "serial"), Result(f.job, 1, "serial")>>)
             /\ esp8266' = ses
             /\ uiq' = Append(uiq, "flash_result")
             /\ Return(f.job)
             /\ stack' = SerialReturn(f)
             /\ UNCHANGED <<is_abort, alive, queue, gui>>
          \/ \* detect_chip raises another exception (esptool's FatalError)
             Raise("Connect", <<>>)

\* lines 77-92: Args, detect_flash_size and flash_set_parameters
write_flash ==
    /\ Running
    /\ Top.kind = "flash"
    /\ Top.pc = "write_flash"
    /\ LET f == [Top EXCEPT !.esp = esp8266] IN
       \/ \E cap \in FlashSizes :
             /\ Emit(<<Call("flash_id", f, 0, 0), Call("flash_set_parameters", f, cap, 0)>>)
             /\ stack' = SetTop([f EXCEPT !.pc = "_write_flash",
                                          !.args.flash_size = "size",
                                          !.args.flash_bytes = cap])
             /\ jobs' = [jobs EXCEPT ![f.job].cap = cap]
             /\ UNCHANGED <<is_abort, esp8266, alive, queue, uiq, gui>>
       \/ Raise("Geometry", <<Failed(Call("flash_id", f, 0, 0))>>)

\* ---------------------------------------------------------------- _write_flash
\* line 99 without `not args.no_stub': compression whenever it is not forced
ResolveCompress_always(args) ==
    IF args.compress = "None" /\ ~args.no_compress
    THEN [args EXCEPT !.compress = "True"]
    ELSE args

\* lines 98-99
ResolveCompress(args) ==
    IF args.compress = "None" /\ ~args.no_compress
    THEN [args EXCEPT !.compress = IF args.no_stub THEN "False" ELSE "True"]
    ELSE args

\* `if args.compress:'
Compress(args) == args.compress = "True"

\* the size check left out
Fits_nocheck(args) == TRUE

\* lines 103-111: every file ends inside the flash
Fits(args) ==
    \/ args.flash_size = "keep"
    \/ \A i \in DOMAIN args.addr_filename :
          args.addr_filename[i].addr + args.addr_filename[i].len <= args.flash_bytes

\* lines 98-111
SizeCheck ==
    /\ Running
    /\ Top.pc = "_write_flash"
    /\ LET f == [Top EXCEPT !.args = ResolveCompress(Top.args)] IN
       IF Fits(f.args)
       THEN /\ stack' = SetTop([f EXCEPT !.pc = "image", !.idx = 1])
            /\ UNCHANGED <<is_abort, esp8266, trace, jobs, alive, queue, uiq, gui>>
       ELSE Raise("ImageTooLarge", <<>>)

\* line 20: the names flasher.py imports from esptool
Imported ==
    {"ESP8266ROM", "read_mac", "erase_flash", "ESPLoader", "print_overwrite",
     "_update_image_flash_params", "pad_to", "flash_size_bytes",
     "detect_flash_size", "DEFAULT_TIMEOUT"}

\* line 117
Padded(file, args) == pad_to(file.len, IF args.encrypt THEN PadEncrypt ELSE PadPlain)

\* lines 114-134: the next file of args.addr_filename is padded, patched,
\* compressed and its transfer opened
NextImage ==
    /\ Running
    /\ Top.pc = "image"
    /\ LET f == Top
           files == f.args.addr_filename
       IN
       IF f.idx > Len(files)
       THEN /\ stack' = SetTop([f EXCEPT !.pc = "leave"])
            /\ UNCHANGED <<is_abort, esp8266, trace, jobs, alive, queue, uiq, gui>>
       ELSE LET file == files[f.idx]
                size == Padded(file, f.args)
            IN
            IF size = 0
            THEN \* line 119 reads argfile.name
                 IF file.named
                 THEN /\ stack' = SetTop([f EXCEPT !.idx = f.idx + 1])
                      /\ UNCHANGED <<is_abort, esp8266, trace, jobs, alive, queue, uiq, gui>>
                 ELSE Raise("AttributeError", <<>>)
            ELSE \/ \* _update_image_flash_params raises
                    Raise("Patch", <<>>)
                 \/ \E n \in (IF Compress(f.args) THEN CompressedLens(size) ELSE {size}) :
                       LET begin == IF Compress(f.args)
                                    THEN Call("flash_defl_begin", f, size, n)
                                    ELSE Call("flash_begin", f, size, size)
                       IN \/ /\ Emit(<<begin>>)
                             /\ stack' = SetTop([f EXCEPT !.pc = IF n > 0 THEN "poll" ELSE "verify",
                                                          !.image = n, !.uncsize = size,
                                                          !.seq = 0, !.written = 0])
                             /\ UNCHANGED <<is_abort, esp8266, jobs, alive, queue, uiq, gui>>
                          \/ Raise("Transport", <<Failed(begin)>>)

\* the `return' of line 141 left out: the loop goes on to write the block
OnAbort_noreturn(f) == [f EXCEPT !.pc = "block"]

\* where _write_flash goes after line 141: back in begin_flash, at line 74
OnAbort(f) == [f EXCEPT !.pc = "result"]

\* lines 136-141: processEvents has run every queued slot; the flag is read
CheckAbort ==
    /\ Running
    /\ Top.pc = "poll"
    /\ queue = <<>>
    /\ LET f == Top IN
       IF is_abort
       THEN /\ Emit(<<Result(f.job, 1, "aborted"), Close(f.job, esp8266)>>)
            /\ uiq' = Append(uiq, "flash_result")
            /\ stack' = SetTop(OnAbort(f))
            /\ UNCHANGED <<is_abort, esp8266, jobs, alive, queue, gui>>
       ELSE /\ stack' = SetTop([f EXCEPT !.pc = "block"])
            /\ UNCHANGED <<is_abort, esp8266, trace, jobs, alive, queue, uiq, gui>>

\* line 150 left out: the last block goes out short
BlockCall_nopad(f) ==
    LET chunk == Min(f.image, FLASH_WRITE_SIZE) IN
    IF Compress(f.args)
    THEN Call("flash_defl_block", f, f.seq, chunk)
    ELSE IF f.args.encrypt
         THEN Call("flash_encrypt_block", f, f.seq, chunk)
         ELSE Call("flash_block", f, f.seq, chunk)

\* lines 145-154: the block sent, by its primitive and its length
BlockCall(f) ==
    LET chunk == Min(f.image, FLASH_WRITE_SIZE) IN
    IF Compress(f.args)
    THEN Call("flash_defl_block", f, f.seq, chunk)
    ELSE IF f.args.encrypt
         THEN Call("flash_encrypt_block", f, f.seq, FLASH_WRITE_SIZE)
         ELSE Call("flash_block", f, f.seq, FLASH_WRITE_SIZE)

\* line 155
Progress(f, block) == Entry("flash_progress_sig", f.job, 0, f.written + block, f.image, "")

\* lines 143-158: one block is written and reported
WriteBlock ==
    /\ Running
    /\ Top.pc = "block"
    /\ LET f == Top
           call == BlockCall(f)
           rest == IF f.image > FLASH_WRITE_SIZE THEN f.image - FLASH_WRITE_SIZE ELSE 0
       IN \/ /\ Emit(<<call, Progress(f, call.y)>>)
             /\ stack' = SetTop([f EXCEPT !.pc = IF rest > 0 THEN "poll" ELSE "verify",
                                          !.image = rest,
                                          !.seq = f.seq + 1,
                                          !.written = f.written + call.y])
             /\ UNCHANGED <<is_abort, esp8266, jobs, alive, queue, uiq, gui>>
          \/ Raise("Transport", <<Failed(call)>>)

\* flash_md5sum(address, uncsize), with what came back
Md5Call(f, outcome) ==
    Entry("flash_md5sum", f.job, f.esp, f.args.addr_filename[f.idx].addr, f.uncsize, outcome)

\* lines 170-181: the device's MD5 of the range against the image's
Verify ==
    /\ Running
    /\ Top.pc = "verify"
    /\ LET f == Top
           next == [f EXCEPT !.pc = "image", !.idx = f.idx + 1]
       IN
       IF f.args.encrypt
       THEN /\ stack' = SetTop(next)
            /\ UNCHANGED <<is_abort, esp8266, trace, jobs, alive, queue, uiq, gui>>
       ELSE \/ \* res = calcmd5
               /\ Emit(<<Md5Call(f, "match")>>)
               /\ stack' = SetTop(next)
               /\ UNCHANGED <<is_abort, esp8266, jobs, alive, queue, uiq, gui>>
            \/ \* res # calcmd5: line 177
               Raise("IntegrityMismatch", <<Md5Call(f, "mismatch")>>)
            \/ \* flash_md5sum raises NotImplementedInROMError: line 180
               IF "NotImplementedInROMError" \in Imported
               THEN /\ Emit(<<Md5Call(f, "unsupported")>>)
                    /\ stack' = SetTop(next)
                    /\ UNCHANGED <<is_abort, esp8266, jobs, alive, queue, uiq, gui>>
               ELSE Raise("NameError", <<Md5Call(f, "unsupported")>>)
            \/ \* flash_md5sum times out
               Raise("Transport", <<Md5Call(f, "timeout")>>)

\* the finish variant chosen without looking at args.compress
FinishCall_plain(f) == Call("flash_finish", f, 0, 0)

\* lines 189-192: flash_defl_finish(False) or flash_finish(False); x is reboot
FinishCall(f) ==
    IF Compress(f.args)
    THEN Call("flash_defl_finish", f, 0, 0)
    ELSE Call("flash_finish", f, 0, 0)

\* lines 183-192
Leave ==
    /\ Running
    /\ Top.pc = "leave"
    /\ LET f == Top
           finish == FinishCall(f)
       IN
       IF f.is_stub
       THEN \/ /\ Emit(<<Call("flash_begin", f, 0, 0), finish>>)
               /\ stack' = SetTop([f EXCEPT !.pc = "result"])
               /\ UNCHANGED <<is_abort, esp8266, jobs, alive, queue, uiq, gui>>
            \/ Raise("Transport", <<Failed(Call("flash_begin", f, 0, 0))>>)
            \/ Raise("Transport", <<Call("flash_begin", f, 0, 0), Failed(finish)>>)
       ELSE /\ stack' = SetTop([f EXCEPT !.pc = "result"])
            /\ UNCHANGED <<is_abort, esp8266, trace, jobs, alive, queue, uiq, gui>>

\* lines 74-75: write_flash has returned
FlashDone ==
    /\ Running
    /\ Top.pc = "result"
    /\ Emit(<<Result(Top.job, 0, "ok"), Close(Top.job, esp8266)>>)
    /\ uiq' = Append(uiq, "flash_result")
    /\ Return(Top.job)
    /\ stack' = Pop
    /\ UNCHANGED <<is_abort, esp8266, alive, queue, gui>>

\* ---------------------------------------------------------------- erase_flash
\* erase_flash clearing the flag the way begin_flash does at line 63
erase_flash_resets ==
    /\ CanDispatch
    /\ Head(queue).sig = "begin_erase_flash_sig"
    /\ queue' = Tail(queue)
    /\ is_abort' = FALSE
    /\ jobs' = Append(jobs, NewJob("erase", 0))
    /\ stack' = Append(stack, Frame("erase", Len(jobs) + 1, 0))
    /\ UNCHANGED <<esp8266, trace, alive, uiq, gui>>

\* line 194: the slot starts
erase_flash ==
    /\ CanDispatch
    /\ Head(queue).sig = "begin_erase_flash_sig"
    /\ queue' = Tail(queue)
    /\ jobs' = Append(jobs, NewJob("erase", 0))
    /\ stack' = Append(stack, Frame("erase", Len(jobs) + 1, 0))
    /\ UNCHANGED <<is_abort, esp8266, trace, alive, uiq, gui>>

\* lines 195-202
EraseConnect ==
    /\ Running
    /\ Top.kind = "erase"
    /\ Top.pc = "connect"
    /\ LET f == Top
           ses == NumSessions + 1
           opened == [f EXCEPT !.esp = ses]
       IN \/ /\ Emit(<<Call("detect_chip", opened, 0, 0), Call("read_mac", opened, 0, 0),
                       Call("run_stub", opened, 0, 0)>>)
             /\ esp8266' = ses
             /\ stack' = SetTop([opened EXCEPT !.pc = "erase", !.is_stub = TRUE])
             /\ UNCHANGED <<is_abort, jobs, alive, queue, uiq, gui>>
          \/ \* detect_chip raises SerialException
             /\ Emit(<<Console(f.job, "serial"), Result(f.job, 1, "serial")>>)
             /\ uiq' = Append(uiq, "flash_result")
             /\ Return(f.job)
             /\ stack' = Pop
             /\ UNCHANGED <<is_abort, esp8266, alive, queue, gui>>
          \/ \* read_mac raises SerialException: self.esp8266 is the ROM loader
             /\ Emit(<<Call("detect_chip", opened, 0, 0), Call("read_mac", opened, 0, 0),
                       Console(f.job, "serial"), Result(f.job, 1, "serial")>>)
             /\ esp8266' = ses
             /\ uiq' = Append(uiq, "flash_result")
             /\ Return(f.job)
             /\ stack' = Pop
             /\ UNCHANGED <<is_abort, alive, queue, gui>>
          \/ Raise("Connect", <<>>)

\* lines 203-206
EraseRun ==
    /\ Running
    /\ Top.kind = "erase"
    /\ Top.pc = "erase"
    /\ LET f == [Top EXCEPT !.esp = esp8266] IN
       \/ /\ Emit(<<Call("erase_flash", f, 0, 0), Console(f.job, "erased"),
                    Entry("complete_erase_flash_sig", f.job, 0, 0, 0, ""),
                    Close(f.job, esp8266)>>)
          /\ uiq' = Append(uiq, "completed_erase")
          /\ Return(f.job)
          /\ stack' = Pop
          /\ UNCHANGED <<is_abort, esp8266, alive, queue, gui>>
       \/ Raise("Transport", <<Failed(Call("erase_flash", f, 0, 0))>>)

\* ---------------------------------------------------------------- FlashMainWnd
\* ui.com_box.currentText(): no port listed, or a port
Devices == {"", "COM1"}

\* What the GUI thread posts reaches the worker only where it delivers queued
\* calls (idle, or in processEvents), and the worker's signals reach the GUI
\* thread through its own queue: a GUI step between two such points is the
\* same as that step at the next one, so the GUI steps are taken there.
Quiescent == alive /\ (IF stack = <<>> THEN TRUE ELSE Top.pc = "poll")

\* lines 313-319, 325-345: the button in state FLASH; go_flash starts a download
start_btn_clicked_flash ==
    /\ Quiescent
    /\ btn_state = "FLASH"
    /\ nclicks < MaxClicks
    /\ nclicks' = nclicks + 1
    /\ btn_state' = "ABORT"
    /\ \E device \in Devices :
          downloads' = IF device = "" THEN downloads ELSE downloads + 1
    /\ UNCHANGED <<worker, queue, uiq, erasebtn>>

\* lines 317-323: the button in state ABORT; go_abort posts abort_flash
start_btn_clicked_abort ==
    /\ Quiescent
    /\ btn_state = "ABORT"
    /\ nclicks < MaxClicks
    /\ nclicks' = nclicks + 1
    /\ btn_state' = "FLASH"
    /\ queue' = Append(queue, [sig |-> "abort_flash_sig", body |-> 0])
    /\ UNCHANGED <<worker, uiq, erasebtn, downloads>>

\* lines 347-362: the download ends; a body with the right checksum is posted
download_firmware_completed ==
    /\ Quiescent
    /\ downloads > 0
    /\ downloads' = downloads - 1
    /\ \/ \E body \in BodyLens :
             queue' = Append(queue, [sig |-> "begin_flash_sig", body |-> body])
       \/ \* reply.error(), or the checksum differs
          UNCHANGED queue
    /\ UNCHANGED <<worker, uiq, btn_state, erasebtn, nclicks>>

\* lines 364-370
start_erase_clicked ==
    /\ Quiescent
    /\ erasebtn
    /\ nclicks < MaxClicks
    /\ nclicks' = nclicks + 1
    /\ \E device \in Devices :
          IF device = ""
          THEN UNCHANGED <<queue, erasebtn>>
          ELSE /\ queue' = Append(queue, [sig |-> "begin_erase_flash_sig", body |-> 0])
               /\ erasebtn' = FALSE
    /\ UNCHANGED <<worker, uiq, btn_state, downloads>>

\* lines 288-296: flash_result_sig is delivered
flash_result ==
    /\ Quiescent
    /\ uiq # <<>>
    /\ Head(uiq) = "flash_result"
    /\ uiq' = Tail(uiq)
    /\ btn_state' = "FLASH"
    /\ UNCHANGED <<worker, queue, erasebtn, downloads, nclicks>>

\* lines 372-373: complete_erase_flash_sig is delivered
completed_erase ==
    /\ Quiescent
    /\ uiq # <<>>
    /\ Head(uiq) = "completed_erase"
    /\ uiq' = Tail(uiq)
    /\ erasebtn' = TRUE
    /\ UNCHANGED <<worker, queue, btn_state, downloads, nclicks>>

\* ---------------------------------------------------------------- specification
Next ==
    \/ abort_flash
    \/ begin_flash
    \/ Connect
    \/ write_flash
    \/ SizeCheck
    \/ NextImage
    \/ CheckAbort
    \/ WriteBlock
    \/ Verify
    \/ Leave
    \/ FlashDone
    \/ erase_flash
    \/ EraseConnect
    \/ EraseRun
    \/ start_btn_clicked_flash
    \/ start_btn_clicked_abort
    \/ download_firmware_completed
    \/ start_erase_clicked
    \/ flash_result
    \/ completed_erase

Spec == Init /\ [][Next]_vars

\* ---------------------------------------------------------------- _write_flash alone
\* _write_flash(esp, args) for every Args a caller can build, on a session
\* the caller has opened: begin_flash is at line 73 and the button reads ABORT.
\* args.addr_filename: opened files have a name, a BytesIO has none
UnitFiles ==
    {<<set_body(0, FLASH_WRITE_SIZE + 2)>>,
     <<[addr |-> 0, len |-> 0, named |-> TRUE], set_body(64, FLASH_WRITE_SIZE + 2)>>,
     <<set_body(0, FLASH_WRITE_SIZE - 1), set_body(64, FLASH_WRITE_SIZE + 2)>>}

UnitArgs ==
    [compress : {"None", "True", "False"}, no_compress : BOOLEAN,
     no_stub : BOOLEAN, encrypt : BOOLEAN, flash_size : {"keep", "size"},
     flash_bytes : {128}, addr_filename : UnitFiles]

UnitInit ==
    \E a \in UnitArgs :
       /\ is_abort = FALSE
       /\ esp8266 = 1
       /\ stack = <<[Frame("flash", 1, a.addr_filename[1].len) EXCEPT
                        !.pc = "_write_flash", !.esp = 1,
                        !.is_stub = ~a.no_stub, !.args = a]>>
       /\ queue = <<>>
       /\ trace = <<Entry("detect_chip", 1, 1, 0, 0, "")>>
       /\ jobs = <<[kind |-> "flash", status |-> "running", err |-> "",
                    body |-> a.addr_filename[1].len, cap |-> 0, args |-> a]>>
       /\ alive = TRUE
       /\ btn_state = "ABORT"
       /\ erasebtn = TRUE
       /\ downloads = 0
       /\ uiq = <<>>
       /\ nclicks = 0

UnitNext ==
    \/ SizeCheck
    \/ NextImage
    \/ CheckAbort
    \/ WriteBlock
    \/ Verify
    \/ Leave
    \/ FlashDone
    \/ start_btn_clicked_abort
    \/ abort_flash

SpecUnit == UnitInit /\ [][UnitNext]_vars

\* ---------------------------------------------------------------- properties
Idx == DOMAIN trace
FlashJobs == {j \in DOMAIN jobs : jobs[j].kind = "flash"}
Ended(j) == jobs[j].status # "running"

\* the result events of job j
ResultsOf(j) == {i \in Idx : trace[i].op = "flash_result_sig" /\ trace[i].job = j}
Success(j) == \E i \in ResultsOf(j) : trace[i].x = 0
Failure(j) == \E i \in ResultsOf(j) : trace[i].x = 1
Aborted(j) == \E i \in ResultsOf(j) : trace[i].s = "aborted"

\* the sessions job j opened
SessionsOf(j) == {trace[i].ses : i \in {k \in Idx : trace[k].op \in DetectOps /\ trace[k].job = j}}
Connected(j) ==
    \E i \in Idx : trace[i].op = "run_stub" /\ trace[i].job = j /\ trace[i].s # "raise"

\* the transfers job j opened for an image (not the zero-length one of line 188)
OpensOf(j) == {i \in Idx : trace[i].op \in BeginOps /\ trace[i].job = j /\ trace[i].x > 0}
BlocksOf(j) == {i \in Idx : trace[i].op \in BlockOps /\ trace[i].job = j}
\* those of them the device took
WrittenOf(j) == {i \in BlocksOf(j) : trace[i].s # "raise"}

\* the device's checksum of job j's image was asked for and was the image's
Verified(j) ==
    \E i \in Idx : /\ trace[i].op = "flash_md5sum"
                   /\ trace[i].job = j
                   /\ trace[i].s = "match"

\* every block of the transfer job j opened was sent
AllBlocksWritten(j) ==
    \E b \in OpensOf(j) :
       Cardinality({i \in WrittenOf(j) : i > b}) * FLASH_WRITE_SIZE >= trace[b].y

\* C1: every flash job emits exactly one result event: never two, and one
\* by the time it has ended, whatever its outcome.
C1_ExactlyOneResult ==
    \A j \in FlashJobs :
       /\ Cardinality(ResultsOf(j)) <= 1
       /\ Ended(j) => Cardinality(ResultsOf(j)) = 1

\* C2: a job whose write loop found the cancellation flag set reports
\* Aborted and never reports Success.
C2_AbortedNeverSuccess ==
    \A j \in FlashJobs : Aborted(j) => ~Success(j)

\* C3: when a job that opened a session emits its result event, that
\* session has already been closed.
C3_ClosedBeforeResult ==
    \A j \in FlashJobs : \A i \in ResultsOf(j) : \A s \in SessionsOf(j) :
       \E k \in Idx : k < i /\ trace[k].op = "close_serial" /\ trace[k].ses = s

\* C4: a job ended by ImageTooLarge, a transport timeout or an
\* IntegrityMismatch has emitted a Failure result and no Success result.
C4_FailureReported ==
    \A j \in FlashJobs :
       (jobs[j].status = "raised" /\
        jobs[j].err \in {"ImageTooLarge", "Transport", "IntegrityMismatch"})
       => (Failure(j) /\ ~Success(j))

\* C5: a job with a non-empty image whose slot has returned has emitted
\* Success if and only if every block of its image was written and the
\* device's checksum matched.
C5_SuccessIffVerified ==
    \A j \in FlashJobs :
       (jobs[j].status = "returned" /\ jobs[j].body > 0)
       => (Success(j) <=> (AllBlocksWritten(j) /\ Verified(j)))

\* the bytes of the blocks job j sent since it last opened a transfer
RECURSIVE SumLens(_, _)
SumLens(S, acc) ==
    IF S = {} THEN acc
    ELSE LET i == CHOOSE k \in S : TRUE IN SumLens(S \ {i}, acc + trace[i].y)
BytesSent(j) ==
    SumLens({i \in WrittenOf(j) : \A b \in OpensOf(j) : b < i}, 0)

\* C6: after the write loop has seen the cancellation flag set, the job
\* issues no block write, checksum request, open_write or finish, and its
\* count of bytes written is the total of the blocks it has sent.
C6_NothingAfterAbort ==
    /\ \A i \in Idx :
          (trace[i].op = "flash_result_sig" /\ trace[i].s = "aborted")
          => \A k \in Idx :
                (k > i /\ trace[k].job = trace[i].job)
                => trace[k].op \notin (BeginOps \cup BlockOps \cup FinishOps \cup {"flash_md5sum"})
    /\ \A n \in DOMAIN stack :
          (stack[n].kind = "flash" /\ stack[n].pc \in {"poll", "block", "verify", "result"}
           /\ OpensOf(stack[n].job) # {})
          => stack[n].written = BytesSent(stack[n].job)

\* C6 witness: a job was cancelled after a block had been sent, and has ended
C6_Witness ==
    \E j \in FlashJobs : Aborted(j) /\ BlocksOf(j) # {} /\ Ended(j)

\* C7: while a flash job is in its write loop, holding its session, no
\* other slot runs on top of it.
C7_NoNestedJob ==
    \A n \in DOMAIN stack :
       (n < Len(stack)) => ~(stack[n].kind = "flash" /\ stack[n].pc = "poll")

\* C8: a job whose payload is empty opens no transfer, writes no block,
\* raises no error for the empty image and ends in Success.
C8_EmptyImageSkipped ==
    \A j \in FlashJobs :
       (jobs[j].body = 0 /\ jobs[j].cap # 0)
       => /\ OpensOf(j) = {} /\ BlocksOf(j) = {}
          /\ jobs[j].err # "AttributeError"
          /\ (Ended(j) /\ jobs[j].err # "Transport") => Success(j)

\* C9: a job whose checksum call reported verification unsupported goes on:
\* it is not ended by an error for that, and barring a later transport
\* failure it ends in Success.
C9_UnsupportedSkipped ==
    \A i \in Idx :
       (trace[i].op = "flash_md5sum" /\ trace[i].s = "unsupported")
       => LET j == trace[i].job IN
          /\ jobs[j].err # "NameError"
          /\ (Ended(j) /\ jobs[j].err # "Transport") => Success(j)

\* the job's image does not fit the flash capacity resolved for it
TooLarge(j) == jobs[j].cap # 0 /\ 0 + jobs[j].body > jobs[j].cap

ProgressOf(j) == {i \in Idx : trace[i].op = "flash_progress_sig" /\ trace[i].job = j}
LastProgress(j) == CHOOSE i \in ProgressOf(j) : \A k \in ProgressOf(j) : k <= i

\* C11: the progress events of a job have non-decreasing bytes_written, the
\* job's result events come after all of them, and on success (without
\* cancellation) the last one has bytes_written equal to its total_bytes.
C11_ProgressEndsAtTotal ==
    \A j \in FlashJobs :
       /\ \A i, k \in ProgressOf(j) : i < k => trace[i].x <= trace[k].x
       /\ \A i \in ProgressOf(j) : \A r \in ResultsOf(j) : i < r
       /\ (Success(j) /\ ~Aborted(j) /\ ProgressOf(j) # {})
          => trace[LastProgress(j)].x = trace[LastProgress(j)].y

\* C12: every progress event has bytes_written <= total_bytes.
C12_WrittenWithinTotal ==
    \A i \in Idx : trace[i].op = "flash_progress_sig" => trace[i].x <= trace[i].y

\* the closes of session s
ClosesOf(s) == {i \in Idx : trace[i].op = "close_serial" /\ trace[i].ses = s}

\* C13: when a flash job has ended, every session it opened has been
\* closed, and the job has issued nothing on it after the first close.
C13_SessionClosedOnce ==
    \A j \in FlashJobs : \A s \in SessionsOf(j) :
       /\ Ended(j) => ClosesOf(s) # {}
       /\ \A c \in ClosesOf(s) : \A k \in Idx :
             (k > c /\ trace[k].job = j) => trace[k].ses # s

\* C14: the cancellation flag becomes true only when abort_flash is
\* delivered and false only when a flash job starts; it is false when a
\* flash job starts, and no other step changes it.
C14_FlagFrame ==
    [][/\ (is_abort' /\ ~is_abort)
          => (queue # <<>> /\ Head(queue).sig = "abort_flash_sig"
              /\ queue' = Tail(queue) /\ jobs' = jobs /\ stack' = stack)
       /\ (~is_abort' /\ is_abort)
          => (Len(jobs') = Len(jobs) + 1 /\ jobs'[Len(jobs')].kind = "flash")
       /\ (Len(jobs') = Len(jobs) + 1 /\ jobs'[Len(jobs')].kind = "flash")
          => ~is_abort'
       /\ (queue # <<>> /\ queue' = Tail(queue) /\ Head(queue).sig = "abort_flash_sig")
          => is_abort']_vars

\* C14 witness: a cancelled job has ended and the flag is still set
C14_Witness ==
    \E j \in FlashJobs : Aborted(j) /\ Ended(j) /\ is_abort /\ stack = <<>>

\* ---- _write_flash over every Args (SpecUnit; jobs[j].args is the Args given)

\* the compression the caller asked for: forced on, forced off, or by the loader
EffectiveCompress(a) ==
    IF a.compress = "True" THEN TRUE
    ELSE IF a.compress = "False" \/ a.no_compress THEN FALSE
    ELSE ~a.no_stub

Md5Of(j) == {i \in Idx : trace[i].op = "flash_md5sum" /\ trace[i].job = j}
FinishesOf(j) == {i \in Idx : trace[i].op \in FinishOps /\ trace[i].job = j}
\* the zero-length flash_begin of line 188
ZeroOpensOf(j) == {i \in Idx : trace[i].op = "flash_begin" /\ trace[i].job = j /\ trace[i].x = 0}

C16_Finalization ==
    \A j \in FlashJobs :
       /\ \A i \in FinishesOf(j) : trace[i].x = 0
       /\ jobs[j].args.no_stub => (ZeroOpensOf(j) = {} /\ FinishesOf(j) = {})
       /\ (Success(j) /\ ~Aborted(j) /\ ~jobs[j].args.no_stub)
          => /\ Cardinality(ZeroOpensOf(j)) = 1
             /\ Cardinality(FinishesOf(j)) = 1
             /\ \A z \in ZeroOpensOf(j) :
                   /\ z + 1 \in FinishesOf(j)
                   /\ (trace[z + 1].op = "flash_defl_finish")
                         <=> EffectiveCompress(jobs[j].args)
                   /\ \A i \in BlocksOf(j) : i < z
                   /\ \A r \in ResultsOf(j) : z + 1 < r

\* C16 witness: a stub-loader job has finished a compressed transfer and ended in Success
C16_Witness ==
    \E j \in FlashJobs :
       /\ Success(j) /\ ~Aborted(j) /\ ~jobs[j].args.no_stub
       /\ \E i \in FinishesOf(j) : trace[i].op = "flash_defl_finish"
       /\ BlocksOf(j) # {}

\* the transfer a block of job j belongs to: the last one opened before it
OpenOf(j, i) == CHOOSE b \in OpensOf(j) : b < i /\ \A c \in OpensOf(j) : c < i => c <= b
BlocksIn(j, b) == {i \in BlocksOf(j) : OpenOf(j, i) = b}
\* the transfer is over: the job went on to the checksum, to another open or to Success
Completed(j, b) ==
    \E m \in Idx :
       /\ m > b /\ trace[m].job = j
       /\ \/ trace[m].op \in BeginOps \cup {"flash_md5sum"}
          \/ trace[m].op = "flash_result_sig" /\ trace[m].x = 0 /\ ~Aborted(j)
Ceil(n, d) == (n + d - 1) \div d

\* C17: within a transfer the blocks carry the sequence numbers 0, 1, ... in
\* order, none beyond the transfer's length; a compressed block has the bytes
\* left (at most a block) and any other block exactly FLASH_WRITE_SIZE; a
\* block that raised is followed by no other block; a completed transfer has
\* sent ceil(length / FLASH_WRITE_SIZE) blocks.
C17_BlockSequence ==
    \A j \in FlashJobs :
       /\ \A i \in BlocksOf(j) :
             LET b == OpenOf(j, i)
                 k == Cardinality({m \in BlocksOf(j) : b < m /\ m < i})
             IN /\ trace[i].x = k
                /\ k * FLASH_WRITE_SIZE < trace[b].y
                /\ trace[i].y = IF trace[i].op = "flash_defl_block"
                                THEN Min(FLASH_WRITE_SIZE, trace[b].y - k * FLASH_WRITE_SIZE)
                                ELSE FLASH_WRITE_SIZE
                /\ trace[i].s = "raise" => \A m \in BlocksOf(j) : m <= i
       /\ \A b \in OpensOf(j) :
             Completed(j, b)
             => Cardinality(BlocksIn(j, b) \cap WrittenOf(j))
                   = Ceil(trace[b].y, FLASH_WRITE_SIZE)

\* C17 witness: an uncompressed transfer of two blocks has been completed
C17_Witness ==
    \E j \in FlashJobs : \E b \in OpensOf(j) :
       /\ trace[b].op = "flash_begin"
       /\ Completed(j, b)
       /\ trace[b].y % FLASH_WRITE_SIZE # 0
       /\ Cardinality(BlocksIn(j, b)) = 2

\* C18: a flash job whose connect raised SerialException has emitted one
\* result, a Failure for the serial port, has ended, and has issued no
\* geometry, open, block, checksum or finish call.
C18_ConnectFailure ==
    \A j \in FlashJobs :
       (\E i \in Idx : trace[i].op = "console_sig" /\ trace[i].job = j /\ trace[i].s = "serial")
       => /\ Cardinality(ResultsOf(j)) = 1
          /\ \A r \in ResultsOf(j) : trace[r].x = 1 /\ trace[r].s = "serial"
          /\ jobs[j].status = "returned"
          /\ \A k \in Idx :
                trace[k].job = j
                => trace[k].op \notin ({"flash_id", "flash_set_parameters", "flash_md5sum"}
                                       \cup BeginOps \cup BlockOps \cup FinishOps)

\* C18 witness: a flash job's connect has failed on the serial port
C18_Witness ==
    \E j \in FlashJobs :
       /\ ~Connected(j)
       /\ \E r \in ResultsOf(j) : trace[r].s = "serial"

\* C19: the begin, block and finish primitives of a job are the compressed
\* ones exactly when compression is forced on, or is not forced off and the
\* session runs the stub loader.
C19_CompressionResolved ==
    \A j \in FlashJobs :
       LET e == EffectiveCompress(jobs[j].args) IN
       /\ \A i \in OpensOf(j) : (trace[i].op = "flash_defl_begin") <=> e
       /\ \A i \in BlocksOf(j) : (trace[i].op = "flash_defl_block") <=> e
       /\ \A i \in FinishesOf(j) : (trace[i].op = "flash_defl_finish") <=> e

\* C19 witness: compression left to Auto on a session without the stub
\* loader, and a block has gone out uncompressed
C19_Witness ==
    \E j \in FlashJobs :
       /\ jobs[j].args.compress = "None" /\ ~jobs[j].args.no_compress
       /\ jobs[j].args.no_stub
       /\ \E i \in BlocksOf(j) : trace[i].op = "flash_block"

EraseJobs == {j \in DOMAIN jobs : jobs[j].kind = "erase"}

\* C20: an erase request that has ended has emitted EraseComplete, and if
\* its session opened it has issued the erase and closed the session.
C20_EraseCompletes ==
    \A j \in EraseJobs :
       Ended(j)
       => /\ \E i \in Idx : trace[i].op = "complete_erase_flash_sig" /\ trace[i].job = j
          /\ Connected(j)
             => /\ \E i \in Idx : trace[i].op = "erase_flash" /\ trace[i].job = j
                /\ \A s \in SessionsOf(j) : ClosesOf(s) # {}

====
